---- MODULE Spec2Model ----
(***************************************************************************)
(* Model of the ncagg plan builder (generate_aggregation_list), the file   *)
(* and fill nodes of the aggregation list (InputFileNode, FillNode) and    *)
(* the plan evaluator (evaluate_aggregation_list).                         *)
(*                                                                         *)
(* Index values (times) are integers counted in ticks.  The configured     *)
(* expected_cadence of the primary dimension is one sample per Period      *)
(* ticks, so dt_nom = Period ticks.  The tolerances dt_min and dt_max are  *)
(* rationals; every comparison the code makes on them is made exactly      *)
(* here on values scaled by Scale = (20 - c) * c with c = 10 *             *)
(* timing_certainty (99 for 0.9).  Floating point rounding is not          *)
(* modelled.  A missing value (None) is the empty sequence, a present      *)
(* value v is <<v>>.  Slice positions are 0-based as in the code.          *)
(***************************************************************************)
EXTENDS Integers, Sequences, FiniteSets, TLC

\* ---------------------------------------------------------------- bounds
MaxFiles == 2
MaxLen == 3
Period == 4

\* ------------------------------------------------------ program constants
TimingCertainty10 == 9
CadenceUncert10 == 9
GapFactor10 == 16
NaN == -1
\* nc.default_fillvals["i4"], and a _FillValue configured for an integer variable
DefaultIntFill == -2147483647
IntFill == -9999

None == <<>>
Some(v) == <<v>>

\* ----------------------------------------------------------- arithmetic
Abs(x) == IF x < 0 THEN -x ELSE x
Max2(a, b) == IF a > b THEN a ELSE b

\* np.floor(n / d), d > 0
FloorDiv(n, d) == n \div d

\* np.ceil(n / d), d > 0
CeilDiv(n, d) == -((-n) \div d)

\* np.round(n / d), d > 0, n >= 0: round half to even
RoundDiv(n, d) ==
    LET q == n \div d
        r == n % d
    IN  IF 2 * r < d THEN q
        ELSE IF 2 * r > d THEN q + 1
        ELSE IF q % 2 = 0 THEN q ELSE q + 1

Scale == (20 - TimingCertainty10) * TimingCertainty10

\* dt_min, dt_nom, dt_max of generate_aggregation_list, times Scale
dt_min(p) == 10 * TimingCertainty10 * p
dt_nom(p) == Scale * p
dt_max(p) == 10 * (20 - TimingCertainty10) * p


\* --------------------------------------------------------------- FillNode
\* FillNode after set_udim(udim, size, start)
FillNode(size, start) == [kind |-> "fill", size |-> size, start |-> start]

\* np.linspace(start, stop, num): num evenly spaced values, both ends included
linspace(start, stop, num) ==
    [i \in 1..num |-> IF num = 1 THEN start
                      ELSE start + ((i - 1) * (stop - start)) \div (num - 1)]

\* (variant of FillIndexValues without the step added for the unlimited dim)
FillIndexValues_from_start(size, start, p) ==
    LET line == linspace(0, (size - 1) * p, size)
    IN  [k \in 1..size |-> line[k] + start]

\* FillNode.data_for the index_by variable, p = 1 / expected_cadence:
\* linspace(0, (size - 1) / cadence, size) + 1 / cadence + initial_value
FillIndexValues(size, start, p) ==
    LET line == linspace(0, (size - 1) * p, size)
    IN  [k \in 1..size |-> line[k] + p + start]

\* get_fill_for a floating data variable: NaN
FillDataValues(size) == [k \in 1..size |-> NaN]

\* ---------------------------------------------------------- InputFileNode
Slice(a, b) == [kind |-> "slice", start |-> a, stop |-> b]

\* strict order of np.argsort: NaN sorts last
Before(a, b) == a # NaN /\ (b = NaN \/ a < b)

\* np.argsort(times) for short arrays (insertion sort, stable), 1-based:
\* element k comes after the elements that sort before it and after the
\* earlier elements that compare equal to it
argsort(times) ==
    LET n == Len(times)
        rank(k) == Cardinality({j \in 1..n :
                       \/ Before(times[j], times[k])
                       \/ (j < k /\ ~Before(times[k], times[j]))}) + 1
    IN  [i \in 1..n |-> CHOOSE k \in 1..n : rank(k) = i]

Sorted(times, sort) == [i \in 1..Len(times) |-> times[sort[i]]]

\* times[...] <= 0 in numpy (False for NaN)
Leq0(t) == t # NaN /\ t <= 0

\* seq[i] with Python's 0-based index, negative counting from the end
PyIndex(seq, i) == IF i < 0 THEN seq[Len(seq) + i + 1] ELSE seq[i + 1]

\* stepdiff < 0.5 / ((2 - cadence_uncert) * cadence_hz)
StepTooSmall(stepdiff, p) == 2 * stepdiff * (20 - CadenceUncert10) < 10 * p

\* stepdiff > 2 / ((2 - cadence_uncert) * cadence_hz)
StepTooBig(stepdiff, p) == stepdiff * (20 - CadenceUncert10) > 20 * p

\* num_missing = max(1, int(np.abs(np.round(stepdiff * cadence_hz))) - 1)
num_missing(stepdiff, p) == Max2(1, RoundDiv(stepdiff, p) - 1)

\* one pass of the for loop of get_coverage, at (0-based) position i
CoverageStep(s, i, st, cadence) ==
    LET t == st[i + 1] IN
    IF s.raised THEN s
    ELSE IF Leq0(t) \/ t = NaN THEN
        [s EXCEPT !.list = IF s.in_slice THEN Append(@, Slice(s.slice_start, i)) ELSE @,
                  !.slice_start = IF cadence = None THEN i + 1 ELSE @,
                  !.in_slice = IF cadence = None THEN @ ELSE FALSE]
    ELSE IF ~s.in_slice THEN
        [s EXCEPT !.slice_start = i, !.in_slice = TRUE]
    ELSE IF cadence = None THEN
        \* 0.5 / ((2 - cadence_uncert) * None): TypeError
        [s EXCEPT !.raised = TRUE]
    ELSE LET stepdiff == t - PyIndex(st, i - 1) IN
        IF StepTooSmall(stepdiff, cadence[1]) THEN
            [s EXCEPT !.list = Append(@, Slice(s.slice_start, i)),
                      !.in_slice = FALSE]
        ELSE IF StepTooBig(stepdiff, cadence[1]) THEN
            [s EXCEPT !.list = Append(Append(@, Slice(s.slice_start, i)),
                                      FillNode(num_missing(stepdiff, cadence[1]),
                                               PyIndex(st, i - 1))),
                      !.slice_start = i,
                      !.in_slice = TRUE]
        ELSE s

\* the for loop of get_coverage over to_iter[lo..hi], in order (evaluated by
\* halves to keep the evaluation shallow)
RECURSIVE CoverageLoop(_, _, _, _, _, _)
CoverageLoop(s, to_iter, lo, hi, st, cadence) ==
    IF lo > hi THEN s
    ELSE IF lo = hi THEN CoverageStep(s, to_iter[lo], st, cadence)
    ELSE LET mid == (lo + hi) \div 2
             left == CoverageLoop(s, to_iter, lo, mid, st, cadence)
         IN  IF left.raised THEN left
             ELSE CoverageLoop(left, to_iter, mid + 1, hi, st, cadence)

\* the 0-based positions of lo..hi-1 that are in keep, ascending, as a sequence
RangeWhere(lo, hi, keep) ==
    LET pos == {i \in lo..(hi - 1) : i \in keep}
    IN  [k \in 1..Cardinality(pos) |->
            CHOOSE i \in pos : Cardinality({j \in pos : j < i}) = k - 1]

\* InputFileNode.get_coverage for the primary dimension: the argsort and the
\* file internal aggregation list, or raised (the file is not indexable)
get_coverage(times, cadence) ==
    LET n == Len(times)
        sort == argsort(times)
        st == Sorted(times, sort)
        valid == {i \in 0..(n - 1) : ~Leq0(st[i + 1])}
        first == CHOOSE i \in valid : \A j \in valid : i <= j
        to_iter == IF cadence # None
                   THEN RangeWhere(first + 1, n, 0..(n - 1))
                   ELSE RangeWhere(0, n, {i \in 0..(n - 1) : Leq0(times[i + 1])})
        s0 == [slice_start |-> first, in_slice |-> TRUE, list |-> <<>>,
               raised |-> FALSE]
        s1 == CoverageLoop(s0, to_iter, 1, Len(to_iter), st, cadence)
        lst == IF s1.in_slice /\ s1.slice_start < n
               THEN Append(s1.list, Slice(s1.slice_start, n))
               ELSE s1.list
    IN  IF n = 0 \/ valid = {} THEN [raised |-> TRUE, sort |-> <<>>, list |-> <<>>]
        ELSE IF st[1] = NaN THEN [raised |-> TRUE, sort |-> <<>>, list |-> <<>>]
        ELSE IF s1.raised THEN [raised |-> TRUE, sort |-> <<>>, list |-> <<>>]
        ELSE [raised |-> FALSE, sort |-> sort, list |-> lst]


\* sum of the file internal aggregation list (fills by size, slices by span)
RECURSIVE get_file_internal_aggregation_size(_)
get_file_internal_aggregation_size(list) ==
    IF list = <<>> THEN 0
    ELSE (IF Head(list).kind = "fill" THEN Head(list).size
          ELSE Head(list).stop - Head(list).start)
         + get_file_internal_aggregation_size(Tail(list))

\* InputFileNode.__init__: get_coverage, then cache_dim_sizes; dim_slices empty
InputFileNode(f, cadence) ==
    LET cov == get_coverage(f.times, cadence)
    IN  [kind |-> "file", name |-> f.name, times |-> f.times,
         has_vars |-> f.has_vars, x |-> f.x,
         sort |-> cov.sort, list |-> cov.list,
         slice_start |-> None, slice_stop |-> None,
         dim_size |-> get_file_internal_aggregation_size(cov.list)]

\* InputFileNode.__init__ when no dimension has index_by: get_coverage does
\* nothing, so there is no argsort and no internal aggregation list; the node
\* is written here with the identity sort and one slice over the whole file,
\* which is what data_for_netcdf and get_size_along fall back on
UnindexedFileNode(f) ==
    [kind |-> "file", name |-> f.name, times |-> f.times,
     has_vars |-> f.has_vars, x |-> f.x,
     sort |-> [i \in 1..Len(f.times) |-> i],
     list |-> <<Slice(0, Len(f.times))>>,
     slice_start |-> None, slice_stop |-> None,
     dim_size |-> Len(f.times)]

get_first_of_index_by(node) ==
    PyIndex(Sorted(node.times, node.sort), node.list[1].start)

get_last_of_index_by(node) ==
    PyIndex(Sorted(node.times, node.sort), node.list[Len(node.list)].stop - 1)

set_dim_slice_start(node, start) == [node EXCEPT !.slice_start = Some(start)]

set_dim_slice_stop(node, stop) == [node EXCEPT !.slice_stop = Some(stop)]

\* InputFileNode.get_size_along(primary, strict=False)
file_size_along(node) ==
    LET dim_length == node.dim_size
        dim_start_i == IF node.slice_start # None /\ node.slice_start[1] < 0
                       THEN dim_length + node.slice_start[1]
                       ELSE IF node.slice_start = None THEN 0 ELSE node.slice_start[1]
        dim_end_i == IF node.slice_stop # None /\ node.slice_stop[1] < 0
                     THEN dim_length + node.slice_stop[1]
                     ELSE IF node.slice_stop = None THEN dim_length ELSE node.slice_stop[1]
    IN  dim_end_i - dim_start_i

\* get_size_along(primary) of either kind of node
get_size_along(node) ==
    IF node.kind = "fill" THEN node.size ELSE file_size_along(node)

\* get_size_along of the second unlimited dimension, which no input file has
\* (CASE: new dim): 1 for a file, 0 for a fill
get_size_along_new_dim(node) == IF node.kind = "fill" THEN 0 ELSE 1

\* seq[a:b] with Python's slice semantics (a, b optional, 0-based)
PySlice(seq, a, b) ==
    LET n == Len(seq)
        norm(v) == IF v < 0 THEN Max2(0, n + v) ELSE IF v > n THEN n ELSE v
        lo == IF a = None THEN 0 ELSE norm(a[1])
        hi == IF b = None THEN n ELSE norm(b[1])
    IN  SubSeq(seq, lo + 1, hi)

\* FillNode.data_for: synthesized index values when the variable is the
\* index_by variable and the cadence is configured, fill values otherwise
fill_data_for(size, start, is_index, cadence) ==
    IF is_index /\ cadence # None
    THEN FillIndexValues(size, start, cadence[1])
    ELSE FillDataValues(size)

\* step 2 of data_for_netcdf: splice the sorted values along the file internal
\* aggregation list
RECURSIVE Splice(_, _, _, _)
Splice(list, sorted, is_index, cadence) ==
    IF list = <<>> THEN <<>>
    ELSE (IF Head(list).kind = "fill"
          THEN fill_data_for(Head(list).size, Head(list).start, is_index, cadence)
          ELSE SubSeq(sorted, Head(list).start + 1, Head(list).stop))
         \o Splice(Tail(list), sorted, is_index, cadence)

\* data_for the index_by variable of the primary dimension
index_data_for(node, cadence) ==
    IF node.kind = "fill" THEN fill_data_for(node.size, node.start, TRUE, cadence)
    ELSE PySlice(Splice(node.list, Sorted(node.times, node.sort), TRUE, cadence),
                 node.slice_start, node.slice_stop)

\* data_for a floating data variable along the primary dimension
x_data_for(node, cadence) ==
    IF node.kind = "fill" THEN fill_data_for(node.size, node.start, FALSE, cadence)
    ELSE PySlice(Splice(node.list, Sorted(node.x, node.sort), FALSE, cadence),
                 node.slice_start, node.slice_stop)

\* ------------------------------------------------ generate_aggregation_list
\* apply a permutation given by argsort to a sequence
Permute(seq, perm) == [i \in 1..Len(seq) |-> seq[perm[i]]]

\* (variant of sorted_files that keeps the order given)
sorted_files_as_given(files) == files

\* sorted(files_to_aggregate): by file name
sorted_files(files) ==
    Permute(files, argsort([i \in 1..Len(files) |-> files[i].name]))

\* the first loop: one InputFileNode per file, files that raise are skipped
RECURSIVE build_preliminary(_, _)
build_preliminary(files, cadence) ==
    IF files = <<>> THEN <<>>
    ELSE (IF get_coverage(Head(files).times, cadence).raised THEN <<>>
          ELSE <<InputFileNode(Head(files), cadence)>>)
         \o build_preliminary(Tail(files), cadence)

\* sorted(preliminary, key=get_first_of_index_by), stable
sorted_by_first(nodes) ==
    Permute(nodes, argsort([i \in 1..Len(nodes) |-> get_first_of_index_by(nodes[i])]))

\* gap_between > 1.6 * dt_max
GapTooBig(gap, p) == 10 * gap > GapFactor10 * dt_max(p)

\* size of the fill for CASE: exists-previous-file
fill_size_prev(gap, p) == Max2(1, RoundDiv(gap - dt_nom(p), Scale * p))

\* (variant of fill_size_first that rounds as CASE: exists-previous-file does)
fill_size_first_rounded(gap, p) == Max2(1, RoundDiv(gap - dt_nom(p), Scale * p))

\* size of the fill for CASE: no-previous-file
fill_size_first(gap, p) == Max2(1, FloorDiv(gap - dt_nom(p), Scale * p))

\* (variant of overlap_start that takes the floor)
overlap_start_floored(gap, p) == FloorDiv(Abs(gap - dt_min(p)), Scale * p)

\* num_overlap of CASE: gap-too-small
overlap_start(gap, p) == CeilDiv(Abs(gap - dt_min(p)), Scale * p)

\* num_overlap of CASE: hanging-over-edge
overlap_stop(next_end, high, p) == Abs(CeilDiv(next_end - high, p))

\* CASE: hanging-over-edge applies
HangingOver(high, next_end) == high # None /\ high[1] < next_end

\* file completely outside of the bounds
OutOfBounds(low, high, next_start, next_end) ==
    \/ (low # None /\ low[1] > next_end)
    \/ (high # None /\ high[1] < next_start)

\* the part of the loop body after prev_end is known (prev_end and gap are
\* scaled by Scale); has_prev is len(final) > 0
correct_next(final, next_f, cfg, prev_end, has_prev) ==
    LET p == cfg.cadence[1]
        next_start == get_first_of_index_by(next_f)
        next_end == get_last_of_index_by(next_f)
        gap_between == Scale * next_start - prev_end
        big == GapTooBig(gap_between, p)
        too_big == big /\ Scale * next_start - dt_nom(p) > Scale * cfg.min[1]
        size == IF has_prev THEN fill_size_prev(gap_between, p)
                ELSE fill_size_first(gap_between, p)
        start_from == IF has_prev THEN get_last_of_index_by(final[Len(final)])
                      ELSE next_start - (size + 1) * p
        final1 == IF too_big THEN Append(final, FillNode(size, start_from)) ELSE final
        next1 == IF gap_between < dt_min(p)
                 THEN set_dim_slice_start(next_f, overlap_start(gap_between, p))
                 ELSE next_f
        next2 == IF HangingOver(cfg.max, next_end)
                 THEN set_dim_slice_stop(next1, -overlap_stop(next_end, cfg.max[1], p))
                 ELSE next1
    IN  IF big /\ cfg.min = None
        THEN \* next_start - dt_nom > None: TypeError
             [final |-> final, raised |-> TRUE]
        ELSE IF too_big /\ ~has_prev /\ ~(start_from + p >= cfg.min[1])
        THEN \* the assertion fails and the handler stops in ipdb
             [final |-> final, raised |-> TRUE]
        ELSE [final |-> IF file_size_along(next2) > 0 THEN Append(final1, next2)
                        ELSE final1,
              raised |-> FALSE]

\* one pass of the while loop, next_f being preliminary.pop(0)
loop_body(final, next_f, cfg) ==
    LET next_start == get_first_of_index_by(next_f)
        next_end == get_last_of_index_by(next_f)
    IN  IF OutOfBounds(cfg.min, cfg.max, next_start, next_end)
        THEN [final |-> final, raised |-> FALSE]
        ELSE IF cfg.cadence = None
        THEN [final |-> Append(final, next_f), raised |-> FALSE]
        ELSE IF Len(final) > 0
        THEN IF final[Len(final)].kind = "fill"
             THEN \* FillNode has no get_last_of_index_by: AttributeError
                  [final |-> final, raised |-> TRUE]
             ELSE correct_next(final, next_f, cfg,
                               Scale * get_last_of_index_by(final[Len(final)]), TRUE)
        ELSE IF cfg.min = None
        THEN [final |-> Append(final, next_f), raised |-> FALSE]
        ELSE correct_next(final, next_f, cfg,
                          Scale * cfg.min[1] - dt_min(cfg.cadence[1]), FALSE)

\* gap_to_end > dt_max, gap_to_end = (last_along_primary - prev_end) + dt_min
TailGap(high, prev_end, p) == Scale * (high - prev_end) + dt_min(p) > dt_max(p)

\* size = np.floor((gap_to_end - dt_min) * cadence_hz)
tail_size(high, prev_end, p) == FloorDiv(Scale * (high - prev_end), Scale * p)

\* after the loop: the fill up to the max bound
tail_fill(final, cfg) ==
    IF Len(final) > 0 /\ final[Len(final)].kind # "fill"
    THEN LET prev_end == get_last_of_index_by(final[Len(final)])
             p == cfg.cadence[1]
         IN  IF cfg.max = None
             THEN \* None - prev_end: TypeError
                  [final |-> final, raised |-> TRUE]
             ELSE IF TailGap(cfg.max[1], prev_end, p)
             THEN [final |-> Append(final,
                                    FillNode(tail_size(cfg.max[1], prev_end, p), prev_end)),
                   raised |-> FALSE]
             ELSE [final |-> final, raised |-> FALSE]
    ELSE [final |-> final, raised |-> FALSE]

RECURSIVE run_loop(_, _, _)
run_loop(preliminary, final, cfg) ==
    IF preliminary = <<>> THEN tail_fill(final, cfg)
    ELSE LET r == loop_body(final, Head(preliminary), cfg)
         IN  IF r.raised THEN r ELSE run_loop(Tail(preliminary), r.final, cfg)

\* the first loop when no dimension has index_by: every file gives a node
build_unindexed(files) == [i \in 1..Len(files) |-> UnindexedFileNode(files[i])]

\* lines 62-107: what the function does before the while loop; "return" when
\* it returns preliminary at once, "raise" on the TypeError of dt_min
before_loop(cfg, files) ==
    LET built == build_preliminary(sorted_files(files), cfg.cadence)
        preliminary == sorted_by_first(built)
    IN  IF ~cfg.index_by
        THEN [to |-> "return", list |-> build_unindexed(sorted_files(files))]
        ELSE IF built = <<>> THEN [to |-> "return", list |-> <<>>]
        ELSE IF cfg.cadence = None /\ cfg.min = None /\ cfg.max = None
        THEN [to |-> "return", list |-> preliminary]
        ELSE IF cfg.cadence = None
        THEN [to |-> "raise", list |-> <<>>]
        ELSE [to |-> "loop", list |-> preliminary]

\* the whole function: the plan, or raised
generate_aggregation_list(cfg, files) ==
    LET b == before_loop(cfg, files)
    IN  IF b.to = "return" THEN [final |-> b.list, raised |-> FALSE]
        ELSE IF b.to = "raise" THEN [final |-> <<>>, raised |-> TRUE]
        ELSE run_loop(b.list, <<>>, cfg)

\* ------------------------------------------------------------------ inputs
\* The configuration of the primary dimension and the input files are drawn
\* from the sets below.  Times are placed around Origin, the tick of the
\* lower bound when one is configured.
Origin == 3 * Period

NominalTimes(s, n) == [i \in 1..n |-> s + (i - 1) * Period]

\* first values of the regularly sampled files: before the lower bound, on
\* it, and at whole and fractional numbers of nominal steps after it
Starts == << Origin - Period, Origin, Origin + Period,
             Origin + 2 * Period + (3 * Period) \div 4,
             Origin + 3 * Period, Origin + 5 * Period >>

\* regularly sampled files, every start with every length 1..MaxLen
NominalCatalog ==
    [k \in 1..(Len(Starts) * MaxLen) |->
        [times |-> NominalTimes(Starts[((k - 1) \div MaxLen) + 1], ((k - 1) % MaxLen) + 1),
         has_vars |-> TRUE]]

\* files with defects, MaxLen records each
HalfTimes(s) == [i \in 1..MaxLen |-> s + (i - 1) * (Period \div 2)]
DupJumpTimes(s) == [i \in 1..MaxLen |-> IF i = 1 THEN s ELSE s + (i - 2) * 3 * Period]
GapTimes(s) == [i \in 1..MaxLen |-> IF i = 1 THEN s ELSE s + (i + 1) * Period]
ReversedTimes(s) == [i \in 1..MaxLen |-> s + (MaxLen - i) * Period]
ZeroTimes(s) == [i \in 1..MaxLen |-> IF i = 2 THEN 0 ELSE s + (i - 1) * Period]
NaNTimes(s) == [i \in 1..MaxLen |-> IF i = MaxLen THEN NaN ELSE s + (i - 1) * Period]
SparseTimes(s) == <<s, s + 2 * Period - 1>>

DefectCatalog ==
    << [times |-> HalfTimes(Origin + Period), has_vars |-> TRUE],
       [times |-> DupJumpTimes(Origin), has_vars |-> TRUE],
       [times |-> GapTimes(Origin + Period), has_vars |-> TRUE],
       [times |-> ReversedTimes(Origin), has_vars |-> TRUE],
       [times |-> ZeroTimes(Origin), has_vars |-> TRUE],
       [times |-> NaNTimes(Origin + 3 * Period), has_vars |-> TRUE],
       [times |-> [i \in 1..MaxLen |-> 0], has_vars |-> TRUE],
       [times |-> NominalTimes(Origin, MaxLen), has_vars |-> FALSE],
       [times |-> NominalTimes(Origin + 3 * Period, 1), has_vars |-> FALSE],
       \* two records one step short of two nominal steps apart, on the
       \* upper bound, and one record on the upper bound
       [times |-> SparseTimes(Origin + 4 * Period), has_vars |-> TRUE],
       [times |-> NominalTimes(Origin + 4 * Period, 1), has_vars |-> TRUE] >>

Catalog == NominalCatalog \o DefectCatalog

\* the input file called name: its index values, whether it has the data
\* variables, and the values of the data variable x
InputFile(name) ==
    [name |-> name, times |-> Catalog[name].times, has_vars |-> Catalog[name].has_vars,
     x |-> [i \in 1..Len(Catalog[name].times) |-> name * 100 + i]]

\* lists of up to MaxFiles distinct files, in ascending or descending name order
AscendingNames ==
    UNION {{s \in [1..n -> 1..Len(Catalog)] : \A i \in 1..(n - 1) : s[i] < s[i + 1]} :
           n \in 0..MaxFiles}

Reverse(s) == [i \in 1..Len(s) |-> s[Len(s) + 1 - i]]

FileLists ==
    {[i \in 1..Len(s) |-> InputFile(s[i])] : s \in AscendingNames \cup {Reverse(t) : t \in AscendingNames}}

Configs ==
    {[index_by |-> TRUE, cadence |-> Some(Period), min |-> lo, max |-> hi] :
        lo \in {None, Some(Origin)},
        hi \in {None, Some(Origin + 4 * Period), Some(Origin + 4 * Period + Period \div 2)}}
    \cup {[index_by |-> TRUE, cadence |-> None, min |-> None, max |-> None],
          [index_by |-> TRUE, cadence |-> None, min |-> Some(Origin),
           max |-> Some(Origin + 4 * Period)],
          \* no dimension is configured with index_by
          [index_by |-> FALSE, cadence |-> None, min |-> None, max |-> None]}

\* the attributes configured for the floating variable x and for the integer
\* variable n: name and value
VarAttributes ==
    [x |-> [_FillValue |-> Some(NaN), valid_min |-> Some(0)],
     n |-> [_FillValue |-> Some(IntFill), valid_min |-> Some(0)]]

\* initialize_aggregation_file, for the Config: _FillValue is popped from the
\* attributes mapping of the variable; valid_min is replaced by itself cast
\* to the datatype of the variable, which is an equal number
initialize_aggregation_file(attributes) ==
    [v \in DOMAIN attributes |-> [attributes[v] EXCEPT !._FillValue = None]]

\* the literal scenarios of the specification: seconds after Origin at 1 Hz
Seconds(name, a, b) ==
    [name |-> name, times |-> [i \in 1..(b - a + 1) |-> Origin + (a + i - 1) * Period],
     has_vars |-> TRUE, x |-> [i \in 1..(b - a + 1) |-> name * 100 + i]]

Bounds(a, b) ==
    [index_by |-> TRUE, cadence |-> Some(Period), min |-> Some(Origin + a * Period),
     max |-> Some(Origin + b * Period)]

ScenarioS2 == [config |-> Bounds(0, 14), files |-> <<Seconds(1, 0, 9), Seconds(2, 5, 14)>>]
ScenarioS3 == [config |-> Bounds(0, 14), files |-> <<Seconds(1, 0, 4), Seconds(2, 10, 14)>>]
ScenarioS4 == [config |-> Bounds(0, 30), files |-> <<Seconds(1, 0, 59)>>]

Scenarios == {ScenarioS2, ScenarioS3, ScenarioS4}

\* ----------------------------------------------------------- state machine
VARIABLES
    config,             \* the primary dimension of the Config
    files_to_aggregate, \* the input file list, in the order given
    pc,                 \* "generate", "loop", "planned", "evaluate", "done", "raised"
    preliminary,        \* generate_aggregation_list: files not yet examined
    final,              \* generate_aggregation_list: the list being built
    plan,               \* the aggregation list returned
    component,          \* evaluate_aggregation_list: position in the plan
    unlim_starts,       \* the unlim_starts snapshot of every component so far
    out_index,          \* output: the index_by variable along the primary dim
    out_x,              \* output: data variable x along the primary dim
    out_y,              \* output: data variable y along the new unlimited dim
    out_n,              \* output: integer data variable n along the primary dim
    processed,          \* names of the files handed to attribute_handler.process_file
    callbacks,          \* number of calls of the per-component callback
    var_attributes,     \* config.vars[v]["attributes"] of the variables x and n
    \* one attribute strategy object (attributes.py)
    strat,              \* the strategy object: its class and self.attr
    strat_inputs,       \* the values process was called with, in order
    strat_raised,       \* whether the last call of process raised
    strat_result,       \* what finalize returned, None before it is called
    \* an AttributeHandler (attributes.py)
    attrs,              \* config.attrs: the configured global attributes
    attr_handlers,      \* the strategy object of every attribute
    files_seen,         \* the attributes of the files passed to process_file
    nc_out_attrs,       \* the global attributes set on the output
    handler_pc,         \* "process", "finalized", "propagated"
    \* a Config under construction (config.py)
    new_config,         \* the dimensions and variables handed to Config
    new_config_status,  \* "pending", "updated", "accepted", or the error raised
    \* Config.from_dict and Config.to_dict (config.py)
    conf_description,   \* the description handed to from_dict
    conf_loaded,        \* what from_dict gave: None before the call
    conf_history        \* every Config to_dict was called on, and what it gave

agg_vars == <<config, files_to_aggregate, pc, preliminary, final, plan, component,
              unlim_starts, out_index, out_x, out_y, out_n, processed, callbacks,
              var_attributes>>

strat_vars == <<strat, strat_inputs, strat_raised, strat_result>>

handler_vars == <<attrs, attr_handlers, files_seen, nc_out_attrs, handler_pc>>

serial_vars == <<conf_description, conf_loaded, conf_history>>

config_vars == <<new_config, new_config_status, serial_vars>>

vars == <<agg_vars, strat_vars, handler_vars, config_vars>>

\* no aggregation is under way
AggIdle ==
    /\ config = [index_by |-> FALSE, cadence |-> None, min |-> None, max |-> None]
    /\ files_to_aggregate = <<>> /\ pc = "idle"
    /\ preliminary = <<>> /\ final = <<>> /\ plan = <<>> /\ component = 0
    /\ unlim_starts = <<>> /\ out_index = <<>> /\ out_x = <<>> /\ out_y = <<>>
    /\ out_n = <<>>
    /\ processed = <<>> /\ callbacks = 0 /\ var_attributes = <<>>

\* no Config is under construction
SerialIdle == conf_description = <<>> /\ conf_loaded = None /\ conf_history = <<>>

ConfigIdle == new_config = <<>> /\ new_config_status = "idle" /\ SerialIdle

\* no strategy object and no AttributeHandler is in use
AttributesIdle ==
    /\ strat = <<>> /\ strat_inputs = <<>> /\ strat_raised = FALSE
    /\ strat_result = <<>>
    /\ attrs = <<>> /\ attr_handlers = <<>> /\ files_seen = <<>>
    /\ nc_out_attrs = <<>> /\ handler_pc = "idle"

Init ==
    /\ \E inp \in {[config |-> c, files |-> f] : c \in Configs, f \in FileLists}
                 \cup Scenarios :
          /\ config = inp.config
          /\ files_to_aggregate = inp.files
    /\ pc = "generate"
    /\ preliminary = <<>>
    /\ final = <<>>
    /\ plan = <<>>
    /\ component = 0
    /\ unlim_starts = <<>>
    /\ out_index = <<>>
    /\ out_x = <<>>
    /\ out_y = <<>>
    /\ out_n = <<>>
    /\ processed = <<>>
    /\ callbacks = 0
    /\ var_attributes = VarAttributes
    /\ AttributesIdle
    /\ ConfigIdle

\* generate_aggregation_list up to the while loop
GenerateStart ==
    /\ pc = "generate"
    /\ LET b == before_loop(config, files_to_aggregate)
       IN  /\ pc' = IF b.to = "return" THEN "planned"
                    ELSE IF b.to = "raise" THEN "raised" ELSE "loop"
           /\ preliminary' = IF b.to = "loop" THEN b.list ELSE <<>>
           /\ plan' = IF b.to = "return" THEN b.list ELSE <<>>
    /\ UNCHANGED <<config, files_to_aggregate, final, component, unlim_starts,
                   out_index, out_x, out_y, out_n,
                   processed, callbacks, var_attributes,
                   strat_vars, handler_vars, config_vars>>

\* one pass of the while loop
LoopPass ==
    /\ pc = "loop"
    /\ preliminary # <<>>
    /\ LET r == loop_body(final, Head(preliminary), config)
       IN  /\ pc' = IF r.raised THEN "raised" ELSE "loop"
           /\ final' = r.final
    /\ preliminary' = Tail(preliminary)
    /\ UNCHANGED <<config, files_to_aggregate, plan, component, unlim_starts,
                   out_index, out_x, out_y, out_n,
                   processed, callbacks, var_attributes,
                   strat_vars, handler_vars, config_vars>>

\* the end of generate_aggregation_list: the tail fill and the return
GenerateEnd ==
    /\ pc = "loop"
    /\ preliminary = <<>>
    /\ LET r == tail_fill(final, config)
       IN  /\ pc' = IF r.raised THEN "raised" ELSE "planned"
           /\ final' = r.final
           /\ plan' = IF r.raised THEN <<>> ELSE r.final
    /\ UNCHANGED <<config, files_to_aggregate, preliminary, component, unlim_starts,
                   out_index, out_x, out_y, out_n,
                   processed, callbacks, var_attributes,
                   strat_vars, handler_vars, config_vars>>

\* ------------------------------------------------ evaluate_aggregation_list
\* a variable read back up to the length n of its unlimited dimension:
\* positions never written hold the fill value
Pad(seq, n) == IF Len(seq) >= n THEN seq ELSE seq \o FillDataValues(n - Len(seq))

\* nc_out.variables[v][d_start : d_start + size] = data; a shape mismatch is
\* an error that is logged, nothing being written
write_slice(out, d_start, size, data) ==
    IF Len(data) # size \/ size = 0 THEN out
    ELSE SubSeq(Pad(out, d_start), 1, d_start) \o data
         \o SubSeq(out, d_start + size + 1, Len(out))

\* the write slice of a variable along the primary dimension, line 265-266
write_start(starts) == starts.primary

\* the body of the for loop over the components, for one component
evaluate_component(node, cfg, o_index, o_x, o_y) ==
    LET starts == [primary |-> Len(o_index), new_dim |-> Len(o_y)]
        size == get_size_along(node)
        w_index == write_slice(o_index, write_start(starts), size,
                               index_data_for(node, cfg.cadence))
        \* data_for raises VariableNotFoundException when the file lacks x
        w_x == IF node.kind = "file" /\ ~node.has_vars THEN o_x
               ELSE write_slice(o_x, write_start(starts), size,
                                x_data_for(node, cfg.cadence))
        w_y == IF node.kind = "file" /\ node.has_vars
               THEN write_slice(o_y, starts.new_dim, get_size_along_new_dim(node),
                                <<node.name>>)
               ELSE o_y
        length == Max2(Len(w_index), Len(w_x))
    IN  [starts |-> starts, index |-> Pad(w_index, length), x |-> Pad(w_x, length),
         y |-> w_y,
         \* get_size_along is strict here: a negative size is a RuntimeError
         raised |-> size < 0]

\* get_fill_for an integer variable: the _FillValue of its attributes, the
\* default of netCDF without one
get_fill_for(attributes) ==
    IF attributes._FillValue # None THEN attributes._FillValue[1] ELSE DefaultIntFill

\* FillNode.data_for an integer data variable: np.full(shape, get_fill_for(var))
int_fill_data_for(size, attributes) == [k \in 1..size |-> get_fill_for(attributes)]

\* step 2 of data_for_netcdf for an integer data variable
RECURSIVE SpliceInt(_, _, _)
SpliceInt(list, sorted, attributes) ==
    IF list = <<>> THEN <<>>
    ELSE (IF Head(list).kind = "fill"
          THEN int_fill_data_for(Head(list).size, attributes)
          ELSE SubSeq(sorted, Head(list).start + 1, Head(list).stop))
         \o SpliceInt(Tail(list), sorted, attributes)

\* data_for the integer data variable n along the primary dimension; in the
\* input files n holds the numbers x holds
n_data_for(node, attributes) ==
    IF node.kind = "fill" THEN int_fill_data_for(node.size, attributes)
    ELSE PySlice(SpliceInt(node.list, Sorted(node.x, node.sort), attributes),
                 node.slice_start, node.slice_stop)

\* n read back up to the length of the unlimited dimension: positions never
\* written hold the fill_value createVariable was given, the configured one
PadInt(seq, length) ==
    IF Len(seq) >= length THEN seq
    ELSE seq \o [k \in 1..(length - Len(seq)) |-> VarAttributes.n._FillValue[1]]

\* the body of the loop over the variables, for the variable n of one
\* component: written at d_start, the dimension being length long afterwards
evaluate_int_variable(node, attributes, o_n, d_start, length) ==
    LET w_n == IF node.kind = "file" /\ ~node.has_vars THEN o_n
               ELSE write_slice(PadInt(o_n, d_start), d_start, get_size_along(node),
                                n_data_for(node, attributes))
    IN  PadInt(w_n, length)

\* lines 221-256: nothing to do for an empty list, else the output is created
EvaluateStart ==
    /\ pc = "planned"
    /\ pc' = IF plan = <<>> THEN "done" ELSE "evaluate"
    /\ component' = 1
    /\ var_attributes' = IF plan = <<>> THEN var_attributes
                         ELSE initialize_aggregation_file(var_attributes)
    /\ UNCHANGED <<config, files_to_aggregate, preliminary, final, plan,
                   unlim_starts, out_index, out_x, out_y, out_n,
                   processed, callbacks,
                   strat_vars, handler_vars, config_vars>>

\* lines 257-300: one component of the aggregation list is written
EvaluateComponent ==
    /\ pc = "evaluate"
    /\ component <= Len(plan)
    /\ LET r == evaluate_component(plan[component], config, out_index, out_x, out_y)
       IN  /\ pc' = IF r.raised THEN "raised" ELSE "evaluate"
           /\ unlim_starts' = Append(unlim_starts, r.starts)
           /\ out_index' = IF r.raised THEN out_index ELSE r.index
           /\ out_x' = IF r.raised THEN out_x ELSE r.x
           /\ out_y' = IF r.raised THEN out_y ELSE r.y
           /\ out_n' = IF r.raised THEN out_n
                       ELSE evaluate_int_variable(plan[component], var_attributes.n,
                                                  out_n, r.starts.primary, Len(r.index))
           \* do once per component: callback_with_file(process_file), callback()
           /\ processed' = IF ~r.raised /\ plan[component].kind = "file"
                            THEN Append(processed, plan[component].name)
                            ELSE processed
           /\ callbacks' = IF r.raised THEN callbacks ELSE callbacks + 1
    /\ component' = component + 1
    /\ UNCHANGED <<config, files_to_aggregate, preliminary, final, plan,
                   var_attributes, strat_vars, handler_vars, config_vars>>

\* lines 302-304: the output is synced and closed
EvaluateEnd ==
    /\ pc = "evaluate"
    /\ component > Len(plan)
    /\ pc' = "done"
    /\ UNCHANGED <<config, files_to_aggregate, preliminary, final, plan,
                   component, unlim_starts, out_index, out_x, out_y, out_n,
                   processed, callbacks, var_attributes,
                   strat_vars, handler_vars, config_vars>>

Next ==
    \/ GenerateStart
    \/ LoopPass
    \/ GenerateEnd
    \/ EvaluateStart
    \/ EvaluateComponent
    \/ EvaluateEnd

Spec == Init /\ [][Next]_vars

TypeOK ==
    /\ pc \in {"generate", "loop", "planned", "evaluate", "done", "raised"}
    /\ Len(out_index) = Len(out_x)

\* ------------------------------------------------------ attributes.py
\* Attribute values are strings, written as sequences of characters; "" is
\* the empty sequence.
MaxStr == 4
MaxCalls == 2

Letters == {"A", "B"}
Chars == Letters \cup {",", " "}

\* the attribute values read from input files: non-empty (process_file skips
\* empty values), beginning and ending with a letter, the letters being
\* apart: one-letter items with commas and spaces between them
AttrStrings ==
    UNION {{v \in [1..n -> Chars] :
               /\ v[1] \in Letters /\ v[n] \in Letters
               /\ \A i \in 1..(n - 1) : ~(v[i] \in Letters /\ v[i + 1] \in Letters)} :
           n \in 1..MaxStr}

\* the rest of a string after its leading spaces
RECURSIVE SkipSpaces(_)
SkipSpaces(str) ==
    IF str # <<>> /\ Head(str) = " " THEN SkipSpaces(Tail(str)) ELSE str

\* re.split(", *", attr), cur being the item read so far
RECURSIVE re_split(_, _)
re_split(str, cur) ==
    IF str = <<>> THEN <<cur>>
    ELSE IF Head(str) = "," THEN <<cur>> \o re_split(SkipSpaces(Tail(str)), <<>>)
    ELSE re_split(Tail(str), Append(cur, Head(str)))

\* ", ".join(items)
RECURSIVE join(_)
join(items) ==
    IF items = <<>> THEN <<>>
    ELSE IF Len(items) = 1 THEN items[1]
    ELSE items[1] \o <<",", " ">> \o join(Tail(items))

InList(item, list) == \E i \in 1..Len(list) : list[i] = item

\* (variant of unique_extend that appends every item)
RECURSIVE unique_extend_all(_, _)
unique_extend_all(list, items) ==
    IF items = <<>> THEN list
    ELSE unique_extend_all(Append(list, Head(items)), Tail(items))

\* StratUniqueList.process: for each item, append it if not yet in self.attr
RECURSIVE unique_extend(_, _)
unique_extend(list, items) ==
    IF items = <<>> THEN list
    ELSE unique_extend(IF InList(Head(items), list) THEN list
                       ELSE Append(list, Head(items)),
                       Tail(items))

\* (variant of const_process that keeps the latest value)
const_process_latest(st, v) ==
    [strat |-> [st EXCEPT !.attr = v], raised |-> st.attr # <<>> /\ st.attr # v]

\* StratAssertConst.process
const_process(st, v) ==
    IF st.attr = <<>> THEN [strat |-> [st EXCEPT !.attr = v], raised |-> FALSE]
    ELSE [strat |-> st, raised |-> st.attr # v]

\* cls.setup_handler(config=config): the object after __init__; value is the
\* configured value of the attribute, coverage tells whether the bound and the
\* units that time_coverage_start needs are configured
setup_handler(cls, value, coverage) ==
    [cls |-> cls, attr |-> <<>>, value |-> value, coverage |-> coverage]

\* instance.process(attr)
process(st, v) ==
    IF st.cls = "unique_list"
    THEN [strat |-> [st EXCEPT !.attr = unique_extend(st.attr, re_split(v, <<>>))],
          raised |-> FALSE]
    ELSE IF st.cls = "constant" THEN const_process(st, v)
    \* static: the value looked up is returned, nothing is stored;
    \* time_coverage_start: pass
    ELSE [strat |-> st, raised |-> FALSE]

\* instance.finalize(nc_out)
finalize(st) ==
    IF st.cls = "unique_list" THEN [value |-> join(st.attr), raised |-> FALSE]
    ELSE IF st.cls = "time_coverage_start"
    THEN (IF st.coverage = "none" THEN [value |-> <<>>, raised |-> FALSE]
          ELSE IF st.coverage = "datetime" THEN [value |-> <<"T">>, raised |-> FALSE]
          \* config.vars[index_by]["attributes"]["units"] is missing: KeyError
          ELSE [value |-> <<>>, raised |-> TRUE])
    \* Strat.finalize: self.attr
    ELSE [value |-> st.attr, raised |-> FALSE]

\* the strategy classes exercised one object at a time
StrategyClasses == {"unique_list", "constant", "static"}

StratInit ==
    /\ \E cls \in StrategyClasses : strat = setup_handler(cls, <<"A">>, "none")
    /\ strat_inputs = <<>>
    /\ strat_raised = FALSE
    /\ strat_result = None
    /\ AggIdle
    /\ ConfigIdle
    /\ attrs = <<>> /\ attr_handlers = <<>> /\ files_seen = <<>>
    /\ nc_out_attrs = <<>> /\ handler_pc = "idle"

\* process(attr) is called with a value; an exception leaves the object as
\* it was
StratProcess ==
    /\ strat_result = None
    /\ Len(strat_inputs) < MaxCalls
    /\ \E v \in AttrStrings :
          LET r == process(strat, v)
          IN  /\ strat' = r.strat
              /\ strat_raised' = r.raised
              /\ strat_inputs' = Append(strat_inputs, v)
    /\ UNCHANGED <<strat_result, agg_vars, handler_vars, config_vars>>

\* finalize(nc_out) is called
StratFinalize ==
    /\ strat_result = None
    /\ strat_result' = Some(finalize(strat).value)
    /\ UNCHANGED <<strat, strat_inputs, strat_raised, agg_vars, handler_vars,
                   config_vars>>

StratNext == StratProcess \/ StratFinalize

StratSpec == StratInit /\ [][StratNext]_vars

\* ----------------------------------------------------- AttributeHandler
NumAttrs == 2

\* the configured attributes: a strategy and what it needs from the Config
AttrConfigs ==
    {[strategy |-> "constant", value |-> <<>>, coverage |-> "none"],
     [strategy |-> "unique_list", value |-> <<>>, coverage |-> "none"],
     \* min is a datetime
     [strategy |-> "time_coverage_start", value |-> <<>>, coverage |-> "datetime"],
     \* min is a number and the index_by variable has no units attribute
     [strategy |-> "time_coverage_start", value |-> <<>>, coverage |-> "number"]}

\* what nc_in.getncattr gives for one attribute of an input file: the
\* attribute is missing (None), empty, or a one-letter value
FileAttrValues == {None, Some(<<>>)} \cup {Some(<<c>>) : c \in Letters}

AttrFiles == [1..NumAttrs -> FileAttrValues]

\* the body of the try block of process_file for attribute i
process_attr(handlers, i, file) ==
    IF file[i] = None
    \* getncattr raises AttributeError
    THEN [handlers |-> handlers, raised |-> TRUE]
    ELSE IF file[i][1] = <<>> THEN [handlers |-> handlers, raised |-> FALSE]
    ELSE LET r == process(handlers[i], file[i][1])
         IN  [handlers |-> [handlers EXCEPT ![i] = r.strat], raised |-> r.raised]

\* the body of the try block of finalize_file for attribute i
finalize_attr(handlers, i, out) ==
    LET r == finalize(handlers[i])
    IN  IF r.raised THEN [out |-> out, raised |-> TRUE]
        ELSE IF r.value = <<>> THEN [out |-> out, raised |-> FALSE]
        ELSE [out |-> [out EXCEPT ![i] = Some(r.value)], raised |-> FALSE]

\* (variant of caught that lets the exception through)
caught_not(r) == r

\* try: ... except Exception: the exception is logged
caught(r) == [r EXCEPT !.raised = FALSE]

\* AttributeHandler.process_file, from attribute i on
RECURSIVE process_file(_, _, _)
process_file(handlers, file, i) ==
    IF i > Len(handlers) THEN [handlers |-> handlers, raised |-> FALSE]
    ELSE LET r == caught(process_attr(handlers, i, file))
         IN  IF r.raised THEN r ELSE process_file(r.handlers, file, i + 1)

\* AttributeHandler.finalize_file, from attribute i on
RECURSIVE finalize_file(_, _, _)
finalize_file(handlers, out, i) ==
    IF i > Len(handlers) THEN [out |-> out, raised |-> FALSE]
    ELSE LET r == caught(finalize_attr(handlers, i, out))
         IN  IF r.raised THEN r ELSE finalize_file(handlers, r.out, i + 1)

\* AttributeHandler(config, filename=...)
HandlerInit ==
    /\ attrs \in [1..NumAttrs -> AttrConfigs]
    /\ attr_handlers = [i \in 1..NumAttrs |->
                           setup_handler(attrs[i].strategy, attrs[i].value,
                                         attrs[i].coverage)]
    /\ files_seen = <<>>
    /\ nc_out_attrs = [i \in 1..NumAttrs |-> None]
    /\ handler_pc = "process"
    /\ strat = <<>> /\ strat_inputs = <<>> /\ strat_raised = FALSE
    /\ strat_result = <<>>
    /\ AggIdle
    /\ ConfigIdle

\* process_file(nc_in) for one more input file
ProcessFile ==
    /\ handler_pc = "process"
    /\ Len(files_seen) < MaxCalls
    /\ \E file \in AttrFiles :
          LET r == process_file(attr_handlers, file, 1)
          IN  /\ attr_handlers' = r.handlers
              /\ handler_pc' = IF r.raised THEN "propagated" ELSE "process"
              /\ files_seen' = Append(files_seen, file)
    /\ UNCHANGED <<attrs, nc_out_attrs, agg_vars, strat_vars, config_vars>>

\* finalize_file(nc_out)
FinalizeFile ==
    /\ handler_pc = "process"
    /\ LET r == finalize_file(attr_handlers, nc_out_attrs, 1)
       IN  /\ nc_out_attrs' = r.out
           /\ handler_pc' = IF r.raised THEN "propagated" ELSE "finalized"
    /\ UNCHANGED <<attrs, attr_handlers, files_seen, agg_vars, strat_vars,
                   config_vars>>

HandlerNext == ProcessFile \/ FinalizeFile

HandlerSpec == HandlerInit /\ [][HandlerNext]_vars

\* ------------------------------------------------------------ config.py
\* Dimensions are named 1..NumDims.  Dimension 1 is unlimited and is the one
\* that may be given index_by, min, max and other_dim_inds; the others have
\* size DimSize.  Bounds are drawn from 1..MaxBound.
NumDims == 2
MaxBound == 2
DimSize == 1

DimNames == 1..NumDims
VarNames == {"t", "x"}

\* DimensionConfig.__setitem__: without index_by there is no min, no max and
\* no other_dim_inds
DimensionConfig(entry) ==
    IF entry.index_by = None
    THEN [entry EXCEPT !.min = None, !.max = None, !.other_dim_inds = None]
    ELSE entry

\* what is configured for dimension 1
IndexedDimEntries ==
    {[index_by |-> ib, min |-> lo, max |-> hi, other_dim_inds |-> od] :
        ib \in {None, Some("t")},
        lo \in {None} \cup {Some(b) : b \in 1..MaxBound},
        hi \in {None} \cup {Some(b) : b \in 1..MaxBound},
        od \in {None} \cup {Some([dim |-> d, ind |-> k]) :
                               d \in DimNames \ {1}, k \in {0, DimSize}}}

\* the variables: each configured variable with the dimensions it uses
VariableConfigs ==
    UNION {[names -> SUBSET DimNames] : names \in SUBSET VarNames}

\* the arguments of Config(dims, vars, attrs)
NewConfigs ==
    {[dims |-> ds, vars |-> vs,
      indexed |-> IF 1 \in ds THEN DimensionConfig(e)
                  ELSE DimensionConfig([e EXCEPT !.index_by = None])] :
        ds \in SUBSET DimNames, vs \in VariableConfigs, e \in IndexedDimEntries}

\* Config.inter_validate: "accepted" or the error raised
inter_validate(c) ==
    LET var_dims == UNION {c.vars[v] : v \in DOMAIN c.vars}
        dims_set == c.dims
        od == c.indexed.other_dim_inds
    IN  IF var_dims \subseteq dims_set /\ ~(dims_set \subseteq var_dims)
        THEN "ValueError: unused dimensions"
        ELSE IF ~(var_dims \subseteq dims_set) /\ dims_set \subseteq var_dims
        THEN "ValueError: unconfigured dimension"
        ELSE IF c.indexed.index_by # None /\ c.indexed.index_by[1] \notin DOMAIN c.vars
        THEN "ValueError: index_by variable not found"
        ELSE IF od # None /\ od[1].dim \notin dims_set
        THEN "KeyError"
        ELSE IF od # None /\ DimSize <= od[1].ind
        THEN "ValueError: other_dim_inds too big"
        ELSE "accepted"

ConfigInit ==
    /\ new_config \in NewConfigs
    /\ new_config_status = "pending"
    /\ SerialIdle
    /\ AggIdle
    /\ AttributesIdle

\* Config.__init__ ends with inter_validate; so does a re-validation
InterValidate ==
    /\ new_config_status \in {"pending", "updated"}
    /\ new_config_status' = inter_validate(new_config)
    /\ UNCHANGED <<new_config, serial_vars, agg_vars, strat_vars, handler_vars>>

\* config.dims.update({name: entry}) on an accepted Config, the entry being
\* the configured one with other bounds: ConfigDict.update sets the item, so
\* DimensionConfig.__setitem__ runs; to be followed by inter_validate
UpdateBounds ==
    /\ new_config_status = "accepted"
    /\ 1 \in new_config.dims
    /\ \E lo, hi \in {None} \cup {Some(b) : b \in 1..MaxBound} :
          new_config' = [new_config EXCEPT !.indexed =
                            DimensionConfig([@ EXCEPT !.min = lo, !.max = hi])]
    /\ new_config_status' = "updated"
    /\ UNCHANGED <<serial_vars, agg_vars, strat_vars, handler_vars>>

ConfigNext == InterValidate \/ UpdateBounds

ConfigSpec == ConfigInit /\ [][ConfigNext]_vars

\* ------------------------------------------ Config.from_dict and to_dict
\* A description is a mapping with the lists "dimensions", "variables" and
\* "attributes"; an entry of a list is a mapping from field names to values.
\* A ConfigDict is an OrderedDict: its keys in insertion order and the entry
\* stored under every key.  A dict of the code is a set of <<key, value>>.
MaxEntries == 2
MaxTrips == 2

\* dict.get(key, default)
get(d, key, default) == IF key \in DOMAIN d THEN d[key] ELSE default

\* the fields with a default in the item schemas
DimDefaults == [flatten |-> FALSE, index_by |-> None, min |-> None, max |-> None,
                other_dim_inds |-> {}, expected_cadence |-> {}]
VarDefaults == [attributes |-> {}, chunksizes |-> None]
AttrDefaults == [value |-> None]

\* the keys of AttributeHandler.strategy_handlers
AllowedStrategies ==
    {"static", "first", "last", "unique_list", "int_sum", "float_sum", "constant",
     "date_created", "time_coverage_start", "time_coverage_end", "filename", "remove"}

\* validate(schema, value) with the schema of the kind of list: ValueError, or
\* the normalized document, every missing field with a default filled in
validate(kind, value) ==
    IF kind = "dimensions"
    THEN IF get(value, "size", None) # None /\ value.size[1] < 1
         THEN [raised |-> TRUE, document |-> <<>>]
         ELSE [raised |-> FALSE, document |-> value @@ DimDefaults]
    ELSE IF kind = "variables"
    THEN [raised |-> FALSE, document |-> value @@ VarDefaults]
    ELSE IF "strategy" \in DOMAIN value /\ value.strategy \notin AllowedStrategies
         THEN [raised |-> TRUE, document |-> <<>>]
         ELSE [raised |-> FALSE, document |-> value @@ AttrDefaults]

\* DimensionConfig.__setitem__ before it calls ConfigDict.__setitem__
DimensionConfig_setitem(value) ==
    IF get(value, "index_by", None) = None
    THEN [min |-> None, max |-> None, other_dim_inds |-> {},
          expected_cadence |-> {}] @@ value
    ELSE value

\* VariableConfig.__setitem__ raises when chunksizes and dimensions differ in
\* length
VariableConfig_raises(value) ==
    /\ get(value, "chunksizes", None) # None
    /\ Len(get(value, "dimensions", <<>>)) # Len(value.chunksizes[1])

\* self[key] = value of the ConfigDict of a kind, key being value["name"]
ConfigDict_setitem(cd, kind, value) ==
    LET v == validate(kind, IF kind = "dimensions" THEN DimensionConfig_setitem(value)
                            ELSE value)
    IN  IF cd.raised \/ v.raised \/ (kind = "variables" /\ VariableConfig_raises(value))
        THEN [raised |-> TRUE, keys |-> <<>>, entry |-> <<>>]
        ELSE [raised |-> FALSE,
              keys |-> IF value.name \in DOMAIN cd.entry THEN cd.keys
                       ELSE Append(cd.keys, value.name),
              entry |-> (value.name :> v.document) @@ cd.entry]

\* ConfigDict.__init__(a_list): the items are set one by one, in order
RECURSIVE ConfigDict_init(_, _, _)
ConfigDict_init(kind, a_list, cd) ==
    IF a_list = <<>> THEN cd
    ELSE ConfigDict_init(kind, Tail(a_list), ConfigDict_setitem(cd, kind, Head(a_list)))

EmptyConfigDict == [raised |-> FALSE, keys |-> <<>>, entry |-> <<>>]

\* (variant of to_list that lists the entries last first)
to_list_reversed(cd) ==
    [i \in 1..Len(cd.keys) |-> cd.entry[cd.keys[Len(cd.keys) + 1 - i]]]

\* ConfigDict.to_list: a copy of every entry, in the order of the keys
to_list(cd) == [i \in 1..Len(cd.keys) |-> cd.entry[cd.keys[i]]]

\* the dimensions and variables of a Config as inter_validate reads them
AsNewConfig(c) ==
    LET first == IF 1 \in DOMAIN c.dims.entry THEN c.dims.entry[1] ELSE DimDefaults
    IN  [dims |-> DOMAIN c.dims.entry,
         vars |-> [v \in DOMAIN c.vars.entry |->
                      {c.vars.entry[v].dimensions[i] :
                          i \in 1..Len(c.vars.entry[v].dimensions)}],
         indexed |-> [index_by |-> first.index_by, min |-> first.min,
                      max |-> first.max, other_dim_inds |-> None]]

\* Config.from_dict: the three ConfigDicts, then Config.__init__ with
\* inter_validate
from_dict(description) ==
    LET dims == ConfigDict_init("dimensions", get(description, "dimensions", <<>>),
                                EmptyConfigDict)
        vars_ == ConfigDict_init("variables", get(description, "variables", <<>>),
                                 EmptyConfigDict)
        attrs_ == ConfigDict_init("attributes", get(description, "attributes", <<>>),
                                  EmptyConfigDict)
        c == [dims |-> dims, vars |-> vars_, attrs |-> attrs_]
    IN  IF dims.raised \/ vars_.raised \/ attrs_.raised
        THEN [status |-> "ValueError", config |-> None]
        ELSE [status |-> inter_validate(AsNewConfig(c)),
              config |-> IF inter_validate(AsNewConfig(c)) = "accepted"
                         THEN Some(c) ELSE None]

\* Config.to_dict
to_dict(c) ==
    [dimensions |-> to_list(c.dims), variables |-> to_list(c.vars),
     attributes |-> to_list(c.attrs)]

\* the entries of the descriptions handed to from_dict
RawDimEntries ==
    {[name |-> d] : d \in DimNames}
    \cup {[name |-> d, size |-> Some(k)] : d \in DimNames \ {1}, k \in {0, DimSize}}
    \cup {[name |-> d, min |-> Some(1)] : d \in DimNames}
    \cup {[name |-> 1, index_by |-> Some("t")],
          [name |-> 1, index_by |-> Some("t"), min |-> Some(1), max |-> Some(MaxBound)],
          [name |-> 1, index_by |-> Some("t"), expected_cadence |-> {<<1, 1>>}]}

VarT == [name |-> "t", dimensions |-> <<1>>]
VarX(dimensions) == [name |-> "x", dimensions |-> dimensions]

\* the lists of variables: none, t alone, t and x in both orders, x with
\* attributes or chunksizes, x given twice, x with chunksizes of a wrong length
RawVarLists ==
    {<<>>, <<VarT>>, <<VarT, VarX(<<1>>)>>, <<VarX(<<1, 2>>), VarT>>,
     <<VarT, VarX(<<1, 2>>) @@ [attributes |-> {<<"units", "m">>}]>>,
     <<VarX(<<1>>), VarX(<<1, 2>>), VarT>>,
     <<VarT, VarX(<<1, 2>>) @@ [chunksizes |-> Some(<<1>>)]>>}
    \cup {<<VarX(<<d>>) @@ [chunksizes |-> Some(<<1>>)], VarT>> : d \in DimNames \ {1}}

RawAttrLists ==
    {<<>>,
     <<[name |-> "a", strategy |-> "first"]>>,
     <<[name |-> "a", strategy |-> "static", value |-> Some("v")]>>,
     <<[name |-> "a", strategy |-> "nonsense"]>>}

SeqsUpTo(S, n) == UNION {[1..k -> S] : k \in 0..n}

RawDescriptions ==
    {[dimensions |-> d, variables |-> v, attributes |-> a] :
        d \in SeqsUpTo(RawDimEntries, MaxEntries),
        v \in RawVarLists, a \in RawAttrLists}
    \cup {[dimensions |-> d, variables |-> v] :
             d \in SeqsUpTo(RawDimEntries, MaxEntries), v \in RawVarLists}

SerialInit ==
    /\ conf_description \in RawDescriptions
    /\ conf_loaded = None
    /\ conf_history = <<>>
    /\ new_config = <<>> /\ new_config_status = "idle"
    /\ AggIdle
    /\ AttributesIdle

\* Config.from_dict(description)
FromDict ==
    /\ conf_description # <<>>
    /\ conf_loaded = None
    /\ conf_loaded' = Some(from_dict(conf_description))
    /\ UNCHANGED <<conf_description, conf_history, new_config, new_config_status,
                   agg_vars, strat_vars, handler_vars>>

\* config.to_dict() of the Config loaded, the result being the description
\* handed to the next from_dict
ToDict ==
    /\ conf_loaded # None
    /\ conf_loaded[1].status = "accepted"
    /\ Len(conf_history) < MaxTrips
    /\ LET c == conf_loaded[1].config[1]
       IN  /\ conf_description' = to_dict(c)
           /\ conf_history' = Append(conf_history,
                                     [config |-> c, description |-> to_dict(c)])
    /\ conf_loaded' = None
    /\ UNCHANGED <<new_config, new_config_status, agg_vars, strat_vars, handler_vars>>

SerialNext == FromDict \/ ToDict

SerialSpec == SerialInit /\ [][SerialNext]_vars

\* ------------------------------------------------------------- properties
\* the index values a plan yields: what every segment returns for the
\* index_by variable, concatenated in plan order
RECURSIVE PlanIndexValues(_, _)
PlanIndexValues(list, cadence) ==
    IF list = <<>> THEN <<>>
    ELSE index_data_for(Head(list), cadence) \o PlanIndexValues(Tail(list), cadence)

StrictlyIncreasing(seq) == \A i \in 1..(Len(seq) - 1) : seq[i] < seq[i + 1]

\* generate_aggregation_list has returned a plan under a configured cadence
Planned == pc = "planned" /\ config.cadence # None

\* C1: when the cadence of the primary dimension is configured, the index
\* values of the returned plan, concatenated in plan order, are strictly
\* increasing.
C1_Monotonic ==
    Planned => StrictlyIncreasing(PlanIndexValues(plan, config.cadence))

\* both bounds and the cadence are configured and a plan was returned
PlannedInBounds == Planned /\ config.min # None /\ config.max # None

\* C2: when min and max are both set, every index value v of the plan,
\* from a trimmed file or from a fill, satisfies min <= v < max.
C2_BoundsContainment ==
    PlannedInBounds =>
        LET values == PlanIndexValues(plan, config.cadence)
        IN  \A i \in 1..Len(values) :
                config.min[1] <= values[i] /\ values[i] < config.max[1]

\* 0.5 * dt_min <= d <= 2 * dt_max
WithinCadence(d, p) == 2 * Scale * d >= dt_min(p) /\ Scale * d <= 2 * dt_max(p)

\* C3: with a configured cadence every difference between consecutive index
\* values of the plan lies between 0.5 * dt_min and 2 * dt_max.
C3_CadenceBound ==
    Planned =>
        LET values == PlanIndexValues(plan, config.cadence)
        IN  \A i \in 1..(Len(values) - 1) :
                WithinCadence(values[i + 1] - values[i], config.cadence[1])

\* sum of get_size_along over the first n segments of a plan, along the
\* primary dimension and along the new unlimited dimension
RECURSIVE SizeAlongPrimary(_, _)
SizeAlongPrimary(list, n) ==
    IF n = 0 THEN 0 ELSE SizeAlongPrimary(list, n - 1) + get_size_along(list[n])

RECURSIVE SizeAlongNewDim(_, _)
SizeAlongNewDim(list, n) ==
    IF n = 0 THEN 0 ELSE SizeAlongNewDim(list, n - 1) + get_size_along_new_dim(list[n])

Evaluated == pc = "done" /\ plan # <<>>

\* C4: after the evaluation of a plan the output length along every
\* unlimited dimension is the sum of the segments' sizes along it, and every
\* segment was written at the sum of the sizes of the segments before it.
C4_SizeConservation ==
    Evaluated =>
        /\ Len(out_index) = SizeAlongPrimary(plan, Len(plan))
        /\ Len(out_y) = SizeAlongNewDim(plan, Len(plan))
        /\ \A k \in 1..Len(plan) :
              /\ unlim_starts[k].primary = SizeAlongPrimary(plan, k - 1)
              /\ unlim_starts[k].new_dim = SizeAlongNewDim(plan, k - 1)

\* gap_between of the file about to be examined, times Scale
GapOfNext ==
    Scale * get_first_of_index_by(Head(preliminary))
    - (IF final # <<>> THEN Scale * get_last_of_index_by(final[Len(final)])
       ELSE Scale * config.min[1] - dt_min(config.cadence[1]))

\* this pass of the while loop inserts a Fill Segment (CASE: gap-too-big)
FillInserted ==
    /\ pc = "loop" /\ preliminary # <<>>
    /\ Len(final') > Len(final)
    /\ final'[Len(final) + 1].kind = "fill"

RoundedSize == Max2(1, RoundDiv(GapOfNext - dt_nom(config.cadence[1]),
                                Scale * config.cadence[1]))

FlooredSize == Max2(1, FloorDiv(GapOfNext - dt_nom(config.cadence[1]),
                                Scale * config.cadence[1]))

S3_FillOfFive ==
    (pc = "planned" /\ config = ScenarioS3.config /\ files_to_aggregate = ScenarioS3.files)
        => /\ Len(plan) = 3
           /\ plan[1].kind = "file" /\ plan[3].kind = "file"
           /\ plan[2] = FillNode(5, Origin + 4 * Period)
           /\ PlanIndexValues(plan, config.cadence) = NominalTimes(Origin, 15)

FileAppended ==
    /\ pc = "loop" /\ preliminary # <<>> /\ config.cadence # None
    /\ final # <<>> \/ config.min # None
    /\ Len(final') > Len(final)
    /\ final'[Len(final')].kind = "file"

\* the external slices of the segments already in final stay as they are
FinalKept ==
    pc = "loop" => /\ Len(final') >= Len(final)
                   /\ \A k \in 1..Len(final) : final'[k] = final[k]

\* scenario S2: A = 0..9 s untouched, B = 5..14 s trimmed by 5 at its head,
\* the output being the 15 seconds 0..14
S2_TrimOfFive ==
    (config = ScenarioS2.config /\ files_to_aggregate = ScenarioS2.files) =>
        /\ pc = "planned" =>
              /\ Len(plan) = 2
              /\ plan[1] = InputFileNode(ScenarioS2.files[1], config.cadence)
              /\ plan[2] = set_dim_slice_start(
                               InputFileNode(ScenarioS2.files[2], config.cadence), 5)
        /\ pc = "done" => out_index = NominalTimes(Origin, 15)

C7_OverhangS4 ==
    (config = ScenarioS4.config /\ files_to_aggregate = ScenarioS4.files) =>
        /\ pc = "planned" => /\ Len(plan) = 1
                             /\ plan[1].slice_stop = Some(-30)
        /\ pc = "done" => Len(out_index) = 30

\* every input file is sampled at the nominal cadence
NominalInputs ==
    \A k \in 1..Len(files_to_aggregate) :
        LET t == files_to_aggregate[k].times
        IN  \A i \in 1..(Len(t) - 1) : t[i + 1] - t[i] = Period

\* an aggregation with min, max and cadence set has written its output
EvaluatedInBounds ==
    /\ pc = "done" /\ out_index # <<>>
    /\ config.cadence # None /\ config.min # None /\ config.max # None

\* C8: with min, max and cadence set and nominally sampled inputs, the first
\* output index value is less than one nominal step after min and the last is
\* at most one nominal step before max.
C8_IntervalCoverage ==
    (EvaluatedInBounds /\ NominalInputs) =>
        /\ out_index[1] - config.min[1] < config.cadence[1]
        /\ config.max[1] - out_index[Len(out_index)] <= config.cadence[1]

\* the orderings of a list of n files
Orderings(n) == {perm \in [1..n -> 1..n] : \A i, j \in 1..n : perm[i] = perm[j] => i = j}

\* C9: for a fixed Config and set of input files, generate_aggregation_list
\* returns the same plan (segments, external slices, fill sizes and starts)
\* for every ordering of the input list, files with equal first index value
\* included.
C9_Determinism ==
    pc = "planned" =>
        \A perm \in Orderings(Len(files_to_aggregate)) :
            LET r == generate_aggregation_list(config, Permute(files_to_aggregate, perm))
            IN  ~r.raised /\ r.final = plan

\* a plan was built from two files with the same first index value that were
\* given in descending name order, and both are part of it
C9_Witness ==
    /\ pc = "planned" /\ Len(files_to_aggregate) = 2 /\ Len(plan) = 2
    /\ files_to_aggregate[1].name > files_to_aggregate[2].name
    /\ files_to_aggregate[1].times[1] = files_to_aggregate[2].times[1]

\* the output of the aggregation, read as an input file
OutputFile == [name |-> 1, times |-> out_index, x |-> out_x, has_vars |-> TRUE]

\* C10: the output of an aggregation under a Config with min, max and cadence,
\* given as the only input of a second aggregation under the same Config, is
\* planned as a single File Segment without head or tail trimming and without
\* internal, leading or trailing Fill Segment, and is written out unchanged.
C10_Idempotence ==
    EvaluatedInBounds =>
        LET r == generate_aggregation_list(config, <<OutputFile>>)
        IN  /\ ~r.raised
            /\ Len(r.final) = 1
            /\ r.final[1].kind = "file"
            /\ r.final[1].slice_start = None /\ r.final[1].slice_stop = None
            /\ r.final[1].list = <<Slice(0, Len(out_index))>>
            /\ index_data_for(r.final[1], config.cadence) = out_index
            /\ x_data_for(r.final[1], config.cadence) = out_x

\* the Fill Segments inside the internal coverage list of a File Segment
InternalFills(node) ==
    IF node.kind = "file"
    THEN {node.list[i] : i \in {j \in 1..Len(node.list) : node.list[j].kind = "fill"}}
    ELSE {}

\* n values, the k-th being start + k / cadence
IsProgression(d, n, start, p) ==
    Len(d) = n /\ \A k \in 1..n : d[k] = start + k * p

PlannedUnindexed == pc = "planned" /\ ~config.index_by

\* C12 (as claimed): when no configured dimension has index_by, the plan is
\* the File Segments in the order in which the input files were given, with
\* no Fill Segment and no external slice changed.
C12_InputOrder ==
    PlannedUnindexed =>
        plan = [i \in 1..Len(files_to_aggregate) |->
                    UnindexedFileNode(files_to_aggregate[i])]

\* C12 (amended): when no configured dimension has index_by, the plan is the
\* File Segments of the input files in ascending order of file name, with no
\* Fill Segment and no external slice changed.
C12_NameOrder ==
    PlannedUnindexed =>
        /\ Len(plan) = Len(files_to_aggregate)
        /\ \A i \in 1..Len(plan) :
              \E k \in 1..Len(files_to_aggregate) :
                  plan[i] = UnindexedFileNode(files_to_aggregate[k])
        /\ \A i \in 1..(Len(plan) - 1) : plan[i].name < plan[i + 1].name

\* a plan of two File Segments was returned for files given in descending
\* order of name, no dimension having index_by
C12_Witness ==
    /\ PlannedUnindexed /\ Len(plan) = 2
    /\ files_to_aggregate[1].name > files_to_aggregate[2].name

\* the components written so far whose input file lacks the data variables
WrittenWithoutVars ==
    {c \in 1..Len(unlim_starts) : plan[c].kind = "file" /\ ~plan[c].has_vars}

\* the File Segments among the first n components, by name, in plan order
RECURSIVE FileNamesUpTo(_, _)
FileNamesUpTo(list, n) ==
    IF n = 0 THEN <<>>
    ELSE FileNamesUpTo(list, n - 1)
         \o (IF list[n].kind = "file" THEN <<list[n].name>> ELSE <<>>)

\* the variable x absent from component c: its positions along the primary
\* dimension hold fill values, the index_by variable is written all the same
IsolatedPrimary(c) ==
    LET L == unlim_starts[c].primary
        d == index_data_for(plan[c], config.cadence)
    IN  \A k \in 1..get_size_along(plan[c]) :
            /\ out_x[L + k] = NaN
            /\ out_index[L + k] = d[k]

\* the variable y absent from component c: its position along the new
\* unlimited dimension holds a fill value (or was never written)
IsolatedNewDim(c) ==
    LET L == unlim_starts[c].new_dim
    IN  Pad(out_y, L + 1)[L + 1] = NaN

\* attribute processing and the callback ran for every component so far, and
\* evaluation never stops with an error
EvaluationGoesOn ==
    /\ pc \in {"evaluate", "done"} =>
          /\ callbacks = Len(unlim_starts)
          /\ processed = FileNamesUpTo(plan, Len(unlim_starts))
    /\ pc = "raised" => component = 0

\* C13: when a configured unlimited variable is absent from a File Segment's
\* input, its positions in that segment stay fill values, the other variables
\* of the segment are written, attribute processing and the callback run for
\* the segment, and evaluation continues with the next segment.
C13_VariableNotFound ==
    /\ EvaluationGoesOn
    /\ pc \in {"evaluate", "done"} =>
          \A c \in WrittenWithoutVars : IsolatedPrimary(c) /\ IsolatedNewDim(c)

\* the items of a string split on the two characters ", "
RECURSIVE SplitCommaSpace(_, _)
SplitCommaSpace(str, cur) ==
    IF str = <<>> THEN <<cur>>
    ELSE IF Len(str) >= 2 /\ str[1] = "," /\ str[2] = " "
    THEN <<cur>> \o SplitCommaSpace(SubSeq(str, 3, Len(str)), <<>>)
    ELSE SplitCommaSpace(Tail(str), Append(cur, Head(str)))

\* the items of a string split on a comma and the spaces that follow it
RECURSIVE SplitCommaSpaces(_, _)
SplitCommaSpaces(str, cur) ==
    IF str = <<>> THEN <<cur>>
    ELSE IF Head(str) = ","
    THEN <<cur>> \o SplitCommaSpaces(SkipSpaces(Tail(str)), <<>>)
    ELSE SplitCommaSpaces(Tail(str), Append(cur, Head(str)))

\* the items of all the values, in order, under each way of splitting
RECURSIVE ItemsCommaSpace(_)
ItemsCommaSpace(values) ==
    IF values = <<>> THEN <<>>
    ELSE SplitCommaSpace(Head(values), <<>>) \o ItemsCommaSpace(Tail(values))

RECURSIVE ItemsCommaSpaces(_)
ItemsCommaSpaces(values) ==
    IF values = <<>> THEN <<>>
    ELSE SplitCommaSpaces(Head(values), <<>>) \o ItemsCommaSpaces(Tail(values))

\* a list without its repeated items, first occurrences kept in order
RECURSIVE FirstSeen(_)
FirstSeen(list) ==
    IF list = <<>> THEN <<>>
    ELSE LET front == FirstSeen(SubSeq(list, 1, Len(list) - 1))
             last == list[Len(list)]
         IN  IF InList(last, front) THEN front ELSE Append(front, last)

\* finalize of a unique_list strategy has returned
UniqueListFinalized == strat.cls = "unique_list" /\ strat_result # None

\* C15 (as claimed): finalize of unique_list returns the items obtained by
\* splitting every processed value on ", ", duplicates removed in first-seen
\* order, joined by ", ".
C15_UniqueListCommaSpace ==
    UniqueListFinalized =>
        strat_result[1] = join(FirstSeen(ItemsCommaSpace(strat_inputs)))

\* C15 (amended): finalize of unique_list returns the items obtained by
\* splitting every processed value on a comma followed by any number of
\* spaces, duplicates removed in first-seen order, joined by ", ".
C15_UniqueList ==
    UniqueListFinalized =>
        strat_result[1] = join(FirstSeen(ItemsCommaSpaces(strat_inputs)))

\* the values "A, B" and "B,A" gave "A, B"
C15_Witness ==
    /\ UniqueListFinalized
    /\ strat_inputs = <<<<"A", ",", " ", "B">>, <<"B", ",", "A">>>>
    /\ strat_result[1] = <<"A", ",", " ", "B">>

\* C16: the constant strategy records the first value processed, raises on
\* every later value that differs from it and keeps the recorded value when
\* it raises, so finalize returns the first value, after a failure as well.
C16_Constant ==
    (strat.cls = "constant" /\ strat_inputs # <<>>) =>
        /\ strat.attr = strat_inputs[1]
        /\ strat_raised = (strat_inputs[Len(strat_inputs)] # strat_inputs[1])
        /\ strat_result # None => strat_result[1] = strat_inputs[1]

\* finalize has returned the first value after the last process call failed
C16_Witness ==
    /\ strat.cls = "constant" /\ Len(strat_inputs) = 2
    /\ strat_raised
    /\ strat_result = Some(strat_inputs[1])

\* C17: finalize of the static strategy returns the configured value,
\* whatever values were or were not processed.
C17_Static ==
    (strat.cls = "static" /\ strat_result # None) => strat_result[1] = strat.value

\* the strategy object of attribute i after the first n files, had it been
\* run on its own: a missing or empty value and a failed call change nothing
RECURSIVE RunAlone(_, _)
RunAlone(i, n) ==
    IF n = 0
    THEN setup_handler(attrs[i].strategy, attrs[i].value, attrs[i].coverage)
    ELSE LET before == RunAlone(i, n - 1)
             v == files_seen[n][i]
         IN  IF v = None \/ v = Some(<<>>) THEN before
             ELSE process(before, v[1]).strat

\* C14: an exception raised by one attribute's process or finalize does not
\* reach the caller of process_file or finalize_file, the remaining
\* attributes are still processed and finalized, and the state of every other
\* attribute's strategy is what it would be without the failure.
C14_AttributeIsolation ==
    handler_pc # "idle" =>
        /\ handler_pc # "propagated"
        /\ \A i \in 1..NumAttrs : attr_handlers[i] = RunAlone(i, Len(files_seen))
        /\ handler_pc = "finalized" =>
              \A i \in 1..NumAttrs :
                  LET r == finalize(attr_handlers[i])
                  IN  nc_out_attrs[i] = IF r.raised \/ r.value = <<>> THEN None
                                        ELSE Some(r.value)

\* the finalize of the first attribute raised and the process of the second
\* raised on the second file, yet the second attribute was set on the output
C14_Witness ==
    /\ handler_pc = "finalized"
    /\ attrs[1].strategy = "time_coverage_start" /\ finalize(attr_handlers[1]).raised
    /\ attrs[2].strategy = "constant"
    /\ Len(files_seen) = 2
    /\ files_seen[1][2] = Some(<<"A">>) /\ files_seen[2][2] = Some(<<"B">>)
    /\ nc_out_attrs[2] = Some(<<"A">>)

\* inter_validate has run on the Config
Validated == new_config_status \notin {"idle", "pending", "updated"}

\* the dimensions used by the variables of the Config
UsedDims == UNION {new_config.vars[v] : v \in DOMAIN new_config.vars}

\* C18: construction of a Config raises an error if some variable references
\* a dimension that is not configured, and raises an error if some configured
\* dimension is used by no variable.
C18_DimensionsChecked ==
    Validated =>
        /\ ~(UsedDims \subseteq new_config.dims) => new_config_status # "accepted"
        /\ ~(new_config.dims \subseteq UsedDims) => new_config_status # "accepted"

\* C19: constructing or re-validating a Config in which a dimension has both
\* min and max set with min > max fails.
C19_BoundsChecked ==
    (/\ Validated
     /\ new_config.indexed.min # None /\ new_config.indexed.max # None
     /\ new_config.indexed.min[1] > new_config.indexed.max[1])
        => new_config_status # "accepted"

\* C20: generate_aggregation_list, initialize_aggregation_file and
\* evaluate_aggregation_list leave the Config unchanged: every dimension
\* entry and every variable entry, its attributes mapping included, has after
\* each step the value it had before.
C20_ConfigUnchanged ==
    [][config' = config /\ var_attributes' = var_attributes]_vars

\* generate_aggregation_list is over (it returned or raised)
Generated == pc \notin {"idle", "generate", "loop"}

\* generate_aggregation_list raised
GenerateRaised == pc = "raised" /\ component = 0

\* the nodes of the indexable files, in ascending first_value order, that do
\* not lie entirely outside [min, max]
InBoundsNodes ==
    LET nodes == sorted_by_first(build_preliminary(sorted_files(files_to_aggregate),
                                                   config.cadence))
        inside(n) == ~OutOfBounds(config.min, config.max,
                                  get_first_of_index_by(n), get_last_of_index_by(n))
    IN  SelectSeq(nodes, inside)

\* C22: when the primary dimension has min and/or max set but no
\* expected_cadence, generate_aggregation_list completes and returns, in
\* ascending first_value order, exactly the File Segments that do not lie
\* entirely outside [min, max], unsliced, and no Fill Segment.
C22_CadenceUnknown ==
    (/\ Generated
     /\ config.index_by /\ config.cadence = None
     /\ (config.min # None \/ config.max # None))
        => (~GenerateRaised /\ plan = InBoundsNodes)

\* the File Segments built by generate_aggregation_list that are in its lists
FileNodesOf(list) == {list[k] : k \in {j \in 1..Len(list) : list[j].kind = "file"}}

BuiltNodes == FileNodesOf(preliminary) \cup FileNodesOf(final) \cup FileNodesOf(plan)

\* step > 2 * dt_max, dt_max = 1 / (0.9 * cadence_hz)
StepOver2DtMax(step, p) == Scale * step > 2 * dt_max(p)

\* step < 0.5 * dt_min, dt_min = 1 / (1.1 * cadence_hz)
StepUnderHalfDtMin(step, p) == 2 * Scale * step < dt_min(p)

\* the internal coverage list has, just before the sorted position i
\* (0-based), a Fill Segment of the given size and start value
FillBefore(list, i, size, start) ==
    \E k \in 2..Len(list) :
        /\ list[k] = FillNode(size, start)
        /\ list[k - 1].kind = "slice" /\ list[k - 1].stop = i

\* the sorted position i (0-based) lies in a slice of the coverage list
InSlice(list, i) ==
    \E k \in 1..Len(list) :
        list[k].kind = "slice" /\ list[k].start <= i /\ i < list[k].stop

\* C27: with the cadence known, get_coverage appends an internal Fill Segment
\* between two consecutive sorted valid index values exactly when their step
\* exceeds 2 * dt_max, with size max(1, |round(step * cadence_hz)| - 1) and
\* start value equal to the earlier value; a step below 0.5 * dt_min drops
\* the current value; any other step continues the span.
C27_InternalCoverage ==
    (config.index_by /\ config.cadence # None) =>
        \A node \in BuiltNodes :
            LET st == Sorted(node.times, node.sort)
                p == config.cadence[1]
            IN  \A i \in 1..(Len(st) - 1) :
                    (~Leq0(st[i]) /\ ~Leq0(st[i + 1]) /\ st[i] # NaN /\ st[i + 1] # NaN) =>
                        LET step == st[i + 1] - st[i] IN
                        /\ (\E k \in 2..Len(node.list) :
                                /\ node.list[k].kind = "fill"
                                /\ node.list[k - 1].kind = "slice"
                                /\ node.list[k - 1].stop = i)
                             <=> StepOver2DtMax(step, p)
                        /\ StepOver2DtMax(step, p) =>
                                FillBefore(node.list, i, num_missing(step, p), st[i])
                        /\ StepUnderHalfDtMin(step, p) => ~InSlice(node.list, i)
                        /\ (~StepOver2DtMax(step, p) /\ ~StepUnderHalfDtMin(step, p)
                             /\ InSlice(node.list, i - 1))
                                => \E k \in 1..Len(node.list) :
                                      /\ node.list[k].kind = "slice"
                                      /\ node.list[k].start <= i - 1
                                      /\ i < node.list[k].stop

\* an index value that is neither <= 0 nor missing
ValidValue(t) == t # NaN /\ t > 0

\* the sorted positions (0-based) of the valid index values of a node
ValidPositions(node) ==
    {i \in 0..(Len(node.times) - 1) : ValidValue(Sorted(node.times, node.sort)[i + 1])}

\* the sorted positions (0-based) that the slices of a coverage list cover
CoveredPositions(list) ==
    UNION {list[k].start..(list[k].stop - 1) :
              k \in {j \in 1..Len(list) : list[j].kind = "slice"}}

\* C28: with the cadence unknown, every file with at least one valid index
\* value gives an InputFileNode, wherever its invalid values sit in the
\* file; the coverage list holds only slices with start < stop, which cover
\* exactly the sorted positions of the valid values; the cached size equals
\* the number of valid values and the length of what data_for returns.
C28_CoverageUnknownCadence ==
    (pc = "planned" /\ config.index_by /\ config.cadence = None) =>
        \A k \in 1..Len(files_to_aggregate) :
            LET f == files_to_aggregate[k] IN
            (\E i \in 1..Len(f.times) : ValidValue(f.times[i])) =>
                \E node \in FileNodesOf(plan) :
                    /\ node.name = f.name
                    /\ \A j \in 1..Len(node.list) :
                          node.list[j].kind = "slice"
                          /\ node.list[j].start < node.list[j].stop
                    /\ CoveredPositions(node.list) = ValidPositions(node)
                    /\ node.dim_size = Cardinality(ValidPositions(node))
                    /\ node.dim_size = Len(index_data_for(node, config.cadence))

\* some input file is indexable
SomeIndexable ==
    build_preliminary(sorted_files(files_to_aggregate), config.cadence) # <<>>

\* C23: when the primary dimension has an expected_cadence but no max,
\* generate_aggregation_list completes without raising for every non-empty
\* set of indexable input files, and the plan it returns has no tail Fill
\* Segment: it ends with a File Segment.
C23_CadenceWithoutMax ==
    (/\ Generated
     /\ config.index_by /\ config.cadence # None /\ config.max = None
     /\ SomeIndexable)
        => /\ ~GenerateRaised
           /\ plan # <<>> => plan[Len(plan)].kind = "file"

\* C24: in the loop of generate_aggregation_list with the cadence known,
\* whenever a further input file is examined while final is non-empty, the
\* last element of final is a File Segment: a Fill Segment is always
\* immediately followed in final by the file that triggered it.
C24_FillFollowedByFile ==
    (/\ pc = "loop" /\ config.cadence # None
     /\ preliminary # <<>> /\ final # <<>>
     /\ ~OutOfBounds(config.min, config.max,
                     get_first_of_index_by(Head(preliminary)),
                     get_last_of_index_by(Head(preliminary))))
        => final[Len(final)].kind = "file"

\* C25: every segment of a plan returned by generate_aggregation_list has
\* size >= 1 along the primary dimension: the File Segments after head and
\* tail trimming, and every Fill Segment, the tail fill included.
C25_SegmentsNotEmpty ==
    \A k \in 1..Len(plan) : get_size_along(plan[k]) >= 1

\* the last element of final is a File Segment whose last value is
\* < high - dt_max
LastBelowHigh ==
    /\ final # <<>> /\ final[Len(final)].kind = "file"
    /\ Scale * get_last_of_index_by(final[Len(final)])
           < Scale * config.max[1] - dt_max(config.cadence[1])

\* C29: after all files are processed, with the cadence and max set,
\* generate_aggregation_list appends a final Fill Segment, starting from the
\* last file's last value, if and only if the last element of final is a
\* File Segment whose last value is < high - dt_max.
C29_TailFill ==
    [][(/\ pc = "loop" /\ preliminary = <<>>
        /\ config.cadence # None /\ config.max # None)
          => /\ pc' = "planned"
             /\ IF LastBelowHigh
                THEN /\ Len(plan') = Len(final) + 1
                     /\ SubSeq(plan', 1, Len(final)) = final
                     /\ plan'[Len(plan')].kind = "fill"
                     /\ plan'[Len(plan')].start
                           = get_last_of_index_by(final[Len(final)])
                ELSE plan' = final]_vars

\* the first file is examined with a lower bound and a cadence configured:
\* CASE: no-previous-file
NoPreviousFile ==
    /\ pc = "loop" /\ preliminary # <<>> /\ final = <<>>
    /\ config.cadence # None /\ config.min # None

\* C26: when the gap-too-big case triggers with no previous file in final,
\* the synthesized index values of the leading Fill Segment end exactly one
\* dt_nom before the first value of the next file and do not begin before
\* low; the assertion start_from + dt_nom >= low never fails.
C26_BackdatedFill ==
    [][NoPreviousFile =>
          /\ pc' # "raised"
          /\ (final' # <<>> /\ final'[1].kind = "fill") =>
                LET values == index_data_for(final'[1], config.cadence)
                    next_start == get_first_of_index_by(Head(preliminary))
                IN  /\ values # <<>>
                    /\ values[Len(values)] = next_start - config.cadence[1]
                    /\ values[1] >= config.min[1]]_vars

\* a leading Fill Segment of more than one value, followed by its file
C26_Witness ==
    /\ pc = "loop" /\ Len(final) = 2
    /\ final[1].kind = "fill" /\ final[1].size > 1
    /\ final[2].kind = "file"
    /\ config.min # None

\* C21: for every Config accepted by from_dict, from_dict of its to_dict is
\* accepted and equals it: the dimensions, variables and attributes are in
\* the same order and every field, the defaults and the cleared fields
\* included, is equal; and a second to_dict gives the same description.
C21_RoundTrip ==
    /\ (conf_history # <<>> /\ conf_loaded # None) =>
          /\ conf_loaded[1].status = "accepted"
          /\ conf_loaded[1].config[1] = conf_history[Len(conf_history)].config
    /\ \A k \in 2..Len(conf_history) :
          conf_history[k].description = conf_history[k - 1].description

\* two dimensions given with the second name first, the indexed one with a
\* field to clear on the other, went twice through to_dict and from_dict
C21_Witness ==
    /\ Len(conf_history) = 2 /\ conf_loaded # None
    /\ conf_loaded[1].status = "accepted"
    /\ conf_loaded[1].config[1].dims.keys = <<2, 1>>
    /\ conf_loaded[1].config[1].dims.entry[1].index_by = Some("t")
    /\ conf_loaded[1].config[1].dims.entry[2].min = None
    /\ Len(conf_loaded[1].config[1].vars.keys) = 2

\* C30: during evaluate_aggregation_list, for the integer variable n, which
\* has _FillValue IntFill configured, every Fill Segment of the plan yields a
\* constant array of IntFill, which is what the output holds where the
\* segment was written, and so does every internal Fill Segment of a file.
C30_IntegerFill ==
    /\ \A k \in 1..Len(unlim_starts) :
          plan[k].kind = "fill" =>
              \A i \in 1..plan[k].size :
                  out_n[unlim_starts[k].primary + i] = IntFill
    /\ pc = "evaluate" =>
          \A k \in 1..Len(plan) :
              plan[k].kind = "file" =>
                  n_data_for(plan[k], var_attributes.n)
                      = n_data_for(plan[k], VarAttributes.n)

====
